---- MODULE Spec2Model ----
(***************************************************************************)
(* DeployEase: the build-error auto-fix engine (services/autoFixEngine.js) *)
(* and the build-retry loop that drives it (commands/deploy.js,            *)
(* buildWithAutoFix).                                                      *)
(*                                                                         *)
(* An error text is a sequence of tokens.  Each token stands for a literal *)
(* piece of build output (given beside its kind below); the text is the    *)
(* concatenation of the literals.  The regular expressions of the engine   *)
(* are evaluated over the token sequence: a literal of a pattern is found  *)
(* in the tokens whose text contains it (case-insensitively), and ".*"     *)
(* spans tokens but never a newline token.                                 *)
(***************************************************************************)
EXTENDS Integers, Sequences, FiniteSets, TLC

(***************************************************************************)
(* Bounds of the model.                                                    *)
(***************************************************************************)
MaxLen == 1          \* every text of at most this many tokens is analysed
SessionMaxLen == 2   \* tokens in the output of the first build of a session
MaxCalls == 2        \* analyzeError calls on one input
MaxApplications == 2 \* applyFix calls with one fix

(***************************************************************************)
(* Package names.  A name is a sequence of "/"-separated segments, and a   *)
(* segment is a sequence of atoms (pieces of text), so that               *)
(* String.includes, String.split and String.trim act on something.         *)
(***************************************************************************)
NoPackage == << >>

LeftPad == << <<"left-pad">> >>
Vite == << <<"vite">> >>
ReactScripts == << <<"react-scripts">> >>
ConstructorName == << <<"constructor">> >>
BabelCore == << <<"@", "babel">>, <<"core">> >>
ReactReact == << <<"react">>, <<"react">> >>
React == << <<"react">> >>
NodeModulesPath == << <<".">>, <<"node_modules">>, <<"left-pad">> >>

\* Names that appear quoted after "Cannot find module".
QuotedNames ==
  {LeftPad, Vite, ReactScripts, ConstructorName, BabelCore, ReactReact,
   NodeModulesPath}

\* Names that appear in the other name-carrying messages.
OtherNames == {LeftPad, BabelCore}

(***************************************************************************)
(* Tokens.  k is the kind, n the package name the literal carries.         *)
(*   cfmq    Cannot find module '<n>'                                      *)
(*   cfm     cannot find module                                            *)
(*   mnfq    Module not found: Can't resolve '<n>'                         *)
(*   cr      cannot resolve dependency                                     *)
(*   missing missing                                                       *)
(*   package package                                                       *)
(*   npmmiss npm ERR! missing: <n>                                         *)
(*   rs      react-scripts                                                 *)
(*   nf       not found             (begins with a blank)                  *)
(*   colnf   : not found                                                   *)
(*   cnf     : command not found                                           *)
(*   sh      sh:                    (ends with a blank)                    *)
(*   sh1     sh: 1:                 (ends with a blank)                    *)
(*   enoent  ENOENT: no such file or directory                             *)
(*   nm      node_modules                                                  *)
(*   msb     Missing script: "build"                                       *)
(*   nems    npm ERR! missing script: build                                *)
(*   syntax  SyntaxError: Unexpected token                                 *)
(*   unexp   unexpected token                                              *)
(*   typeerr Type error:                                                   *)
(*   tserr   TS2304:                                                       *)
(*   eacces  EACCES: permission denied                                     *)
(*   heap    JavaScript heap out of memory                                 *)
(*   fatal   FATAL ERROR:                                                  *)
(*   heaplim Reached heap limit                                            *)
(*   eaddr   EADDRINUSE                                                    *)
(*   port    port 3000                                                     *)
(*   inuse   already in use                                                *)
(*   nl      the newline character                                         *)
(*   other   hello world                                                   *)
(*   cmdfail Command failed: <the build command>                          *)
(***************************************************************************)
Tok(kind) == [k |-> kind, n |-> NoPackage]
TokN(kind, name) == [k |-> kind, n |-> name]

PlainKinds ==
  {"cfm", "cr", "missing", "package", "rs", "nf", "colnf", "cnf", "sh", "sh1",
   "enoent", "nm", "msb", "nems", "syntax", "unexp", "typeerr", "tserr", "eacces",
   "heap", "fatal", "heaplim", "eaddr", "port", "inuse", "nl", "other"}

Tokens ==
  {Tok(kd) : kd \in PlainKinds}
    \cup {TokN("cfmq", nm) : nm \in QuotedNames}
    \cup {TokN("mnfq", nm) : nm \in OtherNames}
    \cup {TokN("npmmiss", nm) : nm \in OtherNames}

SeqsUpTo(S, len) == UNION {[1..m -> S] : m \in 0..len}


(***************************************************************************)
(* Regular expressions over token sequences.                               *)
(***************************************************************************)
NameHas(name, atom) ==
  \E s \in DOMAIN name : \E a \in DOMAIN name[s] : name[s][a] = atom

\* The kinds of token whose literal contains the literal, compared without
\* case.
LiteralKinds ==
  [lit \in {"cannot find module", "module not found", "cannot resolve",
            "missing", "package", "react-scripts", "not found", "sh:",
            "enoent", "node_modules", "missing script: \"build\"",
            "npm err! missing script", "syntaxerror", "unexpected token",
            "type error", "ts\\d+:", "eacces", "permission denied",
            "javascript heap out of memory", "fatal error", "heap",
            "eaddrinuse", "port", "already in use"} |->
     CASE lit = "cannot find module" -> {"cfmq", "cfm"}
       [] lit = "module not found" -> {"mnfq"}
       [] lit = "cannot resolve" -> {"cr"}
       [] lit = "missing" -> {"missing", "npmmiss", "msb", "nems"}
       [] lit = "package" -> {"package"}
       [] lit = "react-scripts" -> {"rs"}
       [] lit = "not found" -> {"nf", "colnf", "cnf", "mnfq"}
       [] lit = "sh:" -> {"sh", "sh1"}
       [] lit = "enoent" -> {"enoent"}
       [] lit = "node_modules" -> {"nm"}
       [] lit = "missing script: \"build\"" -> {"msb"}
       [] lit = "npm err! missing script" -> {"nems"}
       [] lit = "syntaxerror" -> {"syntax"}
       [] lit = "unexpected token" -> {"syntax", "unexp"}
       [] lit = "type error" -> {"typeerr"}
       [] lit = "ts\\d+:" -> {"tserr"}
       [] lit = "eacces" -> {"eacces"}
       [] lit = "permission denied" -> {"eacces"}
       [] lit = "javascript heap out of memory" -> {"heap"}
       [] lit = "fatal error" -> {"fatal"}
       [] lit = "heap" -> {"heap", "heaplim"}
       [] lit = "eaddrinuse" -> {"eaddr"}
       [] lit = "port" -> {"port"}
       [] lit = "already in use" -> {"inuse"}]

KindsWith(lit) == LiteralKinds[lit]

\* The token's literal contains lit: in its fixed words or in the name it carries.
Has(tok, lit) == tok.k \in KindsWith(lit) \/ NameHas(tok.n, lit)

\* lit1 and then lit2 inside one token: the name follows the fixed words.
InOrder(tok, lit1, lit2) == tok.k \in KindsWith(lit1) /\ NameHas(tok.n, lit2)

SameLine(text, i, j) == \A p \in i..j : text[p].k # "nl"

\* /lit/i
Test(text, lit) == \E i \in DOMAIN text : Has(text[i], lit)

\* /lit1.*lit2/i : "." matches no newline.
TestDotStar(text, lit1, lit2) ==
  \E i \in DOMAIN text : \E j \in DOMAIN text :
    /\ i <= j
    /\ Has(text[i], lit1)
    /\ Has(text[j], lit2)
    /\ i = j => InOrder(text[i], lit1, lit2)
    /\ SameLine(text, i, j)

\* /react-scripts: command not found/i
TestReactScriptsCommandNotFound(text) ==
  \E i \in DOMAIN text :
    i + 1 \in DOMAIN text /\ text[i].k = "rs" /\ text[i + 1].k = "cnf"

\* /sh:.*react-scripts:.*not found/i
TestShReactScriptsNotFound(text) ==
  \E i \in DOMAIN text : \E j \in DOMAIN text :
    /\ i < j
    /\ j + 1 \in DOMAIN text
    /\ Has(text[i], "sh:")
    /\ text[j].k = "rs"
    /\ text[j + 1].k \in {"colnf", "cnf"}
    /\ SameLine(text, i, j + 1)

(***************************************************************************)
(* The name-extraction expression of analyzeError, errorText.match(...):   *)
(* five alternatives; the match is the leftmost one in the text, and at    *)
(* one place the earlier alternative.  A place is 2*i for a match that     *)
(* begins where token i begins and 2*i+1 for one that begins inside it.    *)
(***************************************************************************)
\* Alternative 1: Cannot find module ['"]([^'"]+)['"]
Alt1At(text, i) == text[i].k = "cfmq"

\* Alternative 2: Module not found: Can't resolve ['"]([^'"]+)['"]
Alt2At(text, i) == text[i].k = "mnfq"

\* Alternative 3: react-scripts['"]? not found, beginning inside or at token i.
Alt3At(text, i) ==
  /\ i + 1 \in DOMAIN text
  /\ text[i + 1].k = "nf"
  /\ \/ text[i].k = "rs"
     \/ text[i].k \in {"cfmq", "mnfq"} /\ text[i].n = ReactScripts

\* The tokens whose literal is one word of [\w-]+, and the word.
WordKinds == {"rs", "package", "nm"}

WordName(tok) ==
  CASE tok.k = "rs" -> ReactScripts
    [] tok.k = "package" -> << <<"package">> >>
    [] tok.k = "nm" -> << <<"node_modules">> >>

\* Alternative 4: sh: ([\w-]+): command not found
Alt4At(text, i) ==
  /\ i + 2 \in DOMAIN text
  /\ text[i].k = "sh"
  /\ text[i + 1].k \in WordKinds
  /\ text[i + 2].k = "cnf"

\* Alternative 5: npm ERR! missing: ([\w-@/]+)
Alt5At(text, i) == text[i].k = "npmmiss"

\* Where alternative a matches at token i, or -1.
AltPlace(text, a, i) ==
  CASE a = 1 -> IF Alt1At(text, i) THEN 2 * i ELSE -1
    [] a = 2 -> IF Alt2At(text, i) THEN 2 * i ELSE -1
    [] a = 3 -> IF Alt3At(text, i)
                THEN (IF text[i].k = "rs" THEN 2 * i ELSE 2 * i + 1)
                ELSE -1
    [] a = 4 -> IF Alt4At(text, i) THEN 2 * i ELSE -1
    [] a = 5 -> IF Alt5At(text, i) THEN 2 * i ELSE -1

Alternatives == 1..5

AltMatches(text) ==
  {<<a, i>> \in Alternatives \X DOMAIN text : AltPlace(text, a, i) >= 0}

\* The match the engine gets: the leftmost, the earlier alternative on a tie.
ModuleMatch(text) ==
  LET ms == AltMatches(text)
      rank(m) == 8 * AltPlace(text, m[1], m[2]) + m[1]
      ranks == {rank(m) : m \in ms}
  IN  IF ms = {}
      THEN <<0, 0>>
      ELSE LET least == CHOOSE r \in ranks : \A o \in ranks : r <= o
           IN  CHOOSE m \in ms : rank(m) = least

\* moduleMatch[1] || moduleMatch[2] || moduleMatch[3] || moduleMatch[4] ||
\* (errorText.match(/react-scripts/i) ? "react-scripts" : null), or null.
MissingPackage(text) ==
  LET m == ModuleMatch(text)
  IN  CASE m[1] = 0 -> NoPackage
        [] m[1] \in {1, 2, 5} -> text[m[2]].n
        [] m[1] = 4 -> WordName(text[m[2] + 1])
        [] m[1] = 3 -> IF Test(text, "react-scripts")
                       THEN ReactScripts
                       ELSE NoPackage


(***************************************************************************)
(* package.json.  An object is a function from its keys to its values;     *)
(* has holds the sections the file has.                                    *)
(***************************************************************************)
EmptyObject == [key \in {} |-> ""]

\* format is how the text of the file is laid out: "source", as its author
\* wrote it, or "pretty", as JSON.stringify(packageJson, null, 2) writes it.
Manifest(ex, ok, sections, deps, dev, scr) ==
  [exists |-> ex, parses |-> ok, has |-> sections,
   dependencies |-> deps, devDependencies |-> dev, scripts |-> scr,
   format |-> "source"]

NoManifest == Manifest(FALSE, FALSE, {}, EmptyObject, EmptyObject, EmptyObject)
BadManifest == Manifest(TRUE, FALSE, {}, EmptyObject, EmptyObject, EmptyObject)

Obj1(key, val) == [x \in {key} |-> val]

\* { ...a, ...b }
Spread(a, b) ==
  [key \in DOMAIN a \cup DOMAIN b |-> IF key \in DOMAIN b THEN b[key] ELSE a[key]]

\* A value used as a condition: the empty string is false.
Truthy(obj, key) == key \in DOMAIN obj /\ obj[key] # ""

(***************************************************************************)
(* Commands: the words of a shell command, the package it names and the    *)
(* --save-dev flag.                                                        *)
(***************************************************************************)
Command(ws, pkg, dev) == [words |-> ws, package |-> pkg, saveDev |-> dev]

NpmRunBuild == Command(<<"npm run build">>, NoPackage, FALSE)
NpmRunBuildAndExport ==
  Command(<<"npm run build", "&&", "npm run export">>, NoPackage, FALSE)
MemoryDirective == "NODE_OPTIONS=--max_old_space_size=4096"
NoCommand == Command(<< >>, NoPackage, FALSE)

(***************************************************************************)
(* analyzeError (autoFixEngine.js 24-230).                                 *)
(***************************************************************************)
\* const errorText = errorOutput || buildError.message || ""
ErrorText(errorOutput, message) ==
  IF errorOutput # << >> THEN errorOutput ELSE message

Issue(type, severity, message, pkg, line) ==
  [type |-> type, severity |-> severity, message |-> message,
   package |-> pkg, line |-> line]

Fix(type, description, action, autoFixable, pkg, script) ==
  [type |-> type, description |-> description, action |-> action,
   autoFixable |-> autoFixable, package |-> pkg, script |-> script]

\* Pattern 1, the condition.
Pattern1(text) ==
  \/ Test(text, "cannot find module")
  \/ Test(text, "module not found")
  \/ Test(text, "cannot resolve")
  \/ TestDotStar(text, "missing", "package")
  \/ TestDotStar(text, "react-scripts", "not found")
  \/ TestReactScriptsCommandNotFound(text)
  \/ TestShReactScriptsNotFound(text)

\* s.split("'")[0].split('"')[0].trim() of one segment.
QuoteAtoms == {"'", "\""}

RECURSIVE UpToQuote(_)
UpToQuote(seg) ==
  IF seg = << >> \/ Head(seg) \in QuoteAtoms
  THEN << >>
  ELSE <<Head(seg)>> \o UpToQuote(Tail(seg))

RECURSIVE TrimLeft(_)
TrimLeft(seg) ==
  IF seg # << >> /\ Head(seg) = " " THEN TrimLeft(Tail(seg)) ELSE seg

RECURSIVE TrimRight(_)
TrimRight(seg) ==
  IF seg # << >> /\ seg[Len(seg)] = " "
  THEN TrimRight(SubSeq(seg, 1, Len(seg) - 1))
  ELSE seg

Trim(seg) == TrimRight(TrimLeft(seg))

\* missingPackage.includes("/") ? first + "/" + second.split("'")[0] : stripped
PackageName(missingPackage) ==
  IF Len(missingPackage) > 1
  THEN <<missingPackage[1], UpToQuote(missingPackage[2])>>
  ELSE <<Trim(UpToQuote(missingPackage[1]))>>

\* The keys of the packageMappings literal and what they map to.
packageMappings ==
  [key \in {ReactScripts, ReactReact, << <<"react-dom">> >>, Vite,
            << <<"next">> >>, << <<"webpack">> >>} |->
     IF key = ReactReact THEN React ELSE key]

\* The members every object literal inherits from Object.prototype, which
\* a lookup by an arbitrary key also finds: functions, not strings.
ObjectPrototypeKeys ==
  {ConstructorName, << <<"toString">> >>, << <<"valueOf">> >>,
   << <<"hasOwnProperty">> >>}

InheritedMember == << <<"[object]">> >>

\* packageMappings[packageName] || packageName
ActualPackage(packageName) ==
  IF packageName \in DOMAIN packageMappings
  THEN packageMappings[packageName]
  ELSE IF packageName \in ObjectPrototypeKeys
       THEN InheritedMember
       ELSE packageName

\* isDevDependency (235-248): packageName.includes(dep) for some listed dep.
DevDeps ==
  {<<"react-scripts">>, <<"vite">>, <<"webpack">>, <<"typescript">>,
   <<"@", "types">>, <<"eslint">>, <<"jest">>, <<"babel">>, <<"@", "vite", "js">>}

SegIncludes(seg, dep) ==
  \E i \in 1..Len(seg) :
    i + Len(dep) - 1 <= Len(seg) /\ SubSeq(seg, i, i + Len(dep) - 1) = dep

\* The name compared with the listed names instead of searched for them.
isDevDependencyExact(packageName) ==
  \E dep \in DevDeps : packageName = <<dep>>

isDevDependency(packageName) ==
  \E dep \in DevDeps : \E s \in DOMAIN packageName : SegIncludes(packageName[s], dep)

\* actualPackage.includes is no function when the lookup found an inherited
\* member: isDevDependency raises a TypeError.
Pattern1Throws(matched, missingPackage) ==
  /\ matched
  /\ missingPackage # NoPackage
  /\ ActualPackage(PackageName(missingPackage)) = InheritedMember

NoScript == EmptyObject
NoLine == << >>

NoFix == Fix("none", "", NoCommand, FALSE, NoPackage, NoScript)

Pattern1Issues(matched, missingPackage) ==
  IF matched
  THEN <<Issue("missing_package", "high", "Missing package or module: ",
               missingPackage, NoLine)>>
  ELSE << >>

Pattern1Fixes(matched, missingPackage) ==
  IF ~matched
  THEN << >>
  ELSE IF missingPackage # NoPackage
       THEN LET actualPackage == ActualPackage(PackageName(missingPackage))
            IN  <<Fix("install_package", "Install missing package: ",
                      Command(<<"npm install">>, actualPackage,
                              isDevDependency(actualPackage)),
                      TRUE, actualPackage, NoScript)>>
       ELSE <<Fix("install_dependencies", "Install missing dependencies",
                  Command(<<"npm install">>, NoPackage, FALSE),
                  TRUE, NoPackage, NoScript)>>


\* Pattern 2: /ENOENT.*node_modules|Cannot find module.*node_modules/i
Pattern2(text) ==
  \/ TestDotStar(text, "enoent", "node_modules")
  \/ TestDotStar(text, "cannot find module", "node_modules")

Pattern2Issues(text) ==
  IF Pattern2(text)
  THEN <<Issue("missing_node_modules", "high",
               "node_modules directory not found or incomplete", NoPackage, NoLine)>>
  ELSE << >>

Pattern2Fixes(text) ==
  IF Pattern2(text)
  THEN <<Fix("install_dependencies", "Install all dependencies",
             Command(<<"npm install">>, NoPackage, FALSE), TRUE, NoPackage, NoScript)>>
  ELSE << >>

\* Pattern 3: /Missing script: "build"|npm ERR! missing script/i
Pattern3(text) ==
  \/ Test(text, "missing script: \"build\"")
  \/ Test(text, "npm err! missing script")

Pattern3Issues(text) ==
  IF Pattern3(text)
  THEN <<Issue("missing_build_script", "high",
               "Build script not found in package.json", NoPackage, NoLine)>>
  ELSE << >>

UpdatePackageJson == Command(<<"update_package_json">>, NoPackage, FALSE)

\* The manifest is read only here; a file that does not parse is ignored.
Pattern3Fixes(text, manifest) ==
  IF Pattern3(text) /\ manifest.exists /\ manifest.parses
  THEN LET deps == Spread(manifest.dependencies, manifest.devDependencies)
       IN  IF Truthy(deps, "react-scripts")
           THEN <<Fix("add_build_script", "Add build script for React app",
                      UpdatePackageJson, TRUE, NoPackage,
                      Obj1("build", "react-scripts build"))>>
           ELSE IF Truthy(deps, "vite")
                THEN <<Fix("add_build_script", "Add build script for Vite app",
                           UpdatePackageJson, TRUE, NoPackage,
                           Obj1("build", "vite build"))>>
                ELSE << >>
  ELSE << >>

ManualFix == Command(<<"manual_fix">>, NoPackage, FALSE)

\* Pattern 4: /SyntaxError|ParseError|Unexpected token/i
Pattern4(text) == Test(text, "syntaxerror") \/ Test(text, "unexpected token")

\* errorText.match(/SyntaxError[^\n]+|ParseError[^\n]+/): from the first
\* SyntaxError (spelled so) to the end of its line.
SyntaxLine(text) ==
  LET starts == {i \in DOMAIN text : text[i].k = "syntax"}
  IN  IF starts = {}
      THEN NoLine
      ELSE LET i == CHOOSE a \in starts : \A b \in starts : a <= b
               ends == {j \in i..Len(text) : SameLine(text, i, j)}
               j == CHOOSE a \in ends : \A b \in ends : a >= b
           IN  SubSeq(text, i, j)

Pattern4Issues(text) ==
  IF Pattern4(text)
  THEN <<Issue("syntax_error", "high",
               IF SyntaxLine(text) = NoLine
               THEN "Syntax error in source code"
               ELSE "syntaxMatch[0]",
               NoPackage, SyntaxLine(text))>>
  ELSE << >>

\* The fix of rule 4 marked auto-fixable.
Pattern4FixesAutoFixable(text) ==
  IF Pattern4(text)
  THEN <<Fix("fix_syntax", "Fix syntax errors in source code", ManualFix, TRUE,
             NoPackage, NoScript)>>
  ELSE << >>

Pattern4Fixes(text) ==
  IF Pattern4(text)
  THEN <<Fix("fix_syntax", "Fix syntax errors in source code", ManualFix, FALSE,
             NoPackage, NoScript)>>
  ELSE << >>

\* Pattern 5: /Type error|TS\d+:/i
Pattern5(text) == Test(text, "type error") \/ Test(text, "ts\\d+:")

Pattern5Issues(text) ==
  IF Pattern5(text)
  THEN <<Issue("typescript_error", "medium", "TypeScript compilation errors",
               NoPackage, NoLine)>>
  ELSE << >>

Pattern5Fixes(text) ==
  IF Pattern5(text)
  THEN <<Fix("fix_typescript", "Fix TypeScript errors", ManualFix, FALSE,
             NoPackage, NoScript)>>
  ELSE << >>

\* Pattern 6: /EACCES|permission denied|EACCES/i
Pattern6(text) == Test(text, "eacces") \/ Test(text, "permission denied")

Pattern6Issues(text) ==
  IF Pattern6(text)
  THEN <<Issue("permission_error", "high", "Permission denied error",
               NoPackage, NoLine)>>
  ELSE << >>

Pattern6Fixes(text) ==
  IF Pattern6(text)
  THEN <<Fix("fix_permissions", "Fix file permissions", ManualFix, FALSE,
             NoPackage, NoScript)>>
  ELSE << >>

\* Pattern 7: /JavaScript heap out of memory|FATAL ERROR.*heap/i
Pattern7(text) ==
  \/ Test(text, "javascript heap out of memory")
  \/ TestDotStar(text, "fatal error", "heap")

Pattern7Issues(text) ==
  IF Pattern7(text)
  THEN <<Issue("memory_error", "high", "JavaScript heap out of memory",
               NoPackage, NoLine)>>
  ELSE << >>

\* action: "NODE_OPTIONS=--max_old_space_size=4096 npm run build"
IncreaseMemoryAction ==
  Command(<<MemoryDirective, "npm run build">>, NoPackage, FALSE)

\* The fix of rule 7 marked manual.
Pattern7FixesManual(text) ==
  IF Pattern7(text)
  THEN <<Fix("increase_memory", "Increase Node.js memory limit",
             IncreaseMemoryAction, FALSE, NoPackage, NoScript)>>
  ELSE << >>

Pattern7Fixes(text) ==
  IF Pattern7(text)
  THEN <<Fix("increase_memory", "Increase Node.js memory limit",
             IncreaseMemoryAction, TRUE, NoPackage, NoScript)>>
  ELSE << >>

\* Pattern 8: /EADDRINUSE|port.*already in use/i
Pattern8(text) ==
  \/ Test(text, "eaddrinuse")
  \/ TestDotStar(text, "port", "already in use")

\* The issue of rule 8 pushed whatever the text holds.
Pattern8IssuesAlways(text) ==
  <<Issue("port_in_use", "medium", "Port already in use", NoPackage, NoLine)>>

Pattern8Issues(text) ==
  IF Pattern8(text)
  THEN <<Issue("port_in_use", "medium", "Port already in use", NoPackage, NoLine)>>
  ELSE << >>

Pattern8Fixes(text) ==
  IF Pattern8(text)
  THEN <<Fix("change_port", "Change port or stop conflicting process", ManualFix,
             FALSE, NoPackage, NoScript)>>
  ELSE << >>

\* canAutoFix computed with every in place of some.
ReturnedWhenAllFixable(issues, suggestedFixes) ==
  [status |-> "returned", issues |-> issues, suggestedFixes |-> suggestedFixes,
   canAutoFix |-> /\ suggestedFixes # << >>
                  /\ \A i \in DOMAIN suggestedFixes : suggestedFixes[i].autoFixable]

\* What a call gives its caller: a result, or an exception.
Returned(issues, suggestedFixes) ==
  [status |-> "returned", issues |-> issues, suggestedFixes |-> suggestedFixes,
   canAutoFix |-> \E i \in DOMAIN suggestedFixes : suggestedFixes[i].autoFixable]

Threw == [status |-> "threw", issues |-> << >>, suggestedFixes |-> << >>,
          canAutoFix |-> FALSE]

NoAnalysis == [status |-> "none", issues |-> << >>, suggestedFixes |-> << >>,
               canAutoFix |-> FALSE]

\* The issues and the fixes in the order the rules push them.
Issues(text, matched, missingPackage) ==
  Pattern1Issues(matched, missingPackage) \o Pattern2Issues(text) \o Pattern3Issues(text)
    \o Pattern4Issues(text) \o Pattern5Issues(text) \o Pattern6Issues(text)
    \o Pattern7Issues(text) \o Pattern8Issues(text)

SuggestedFixes(text, matched, missingPackage, manifest) ==
  Pattern1Fixes(matched, missingPackage) \o Pattern2Fixes(text) \o Pattern3Fixes(text, manifest)
    \o Pattern4Fixes(text) \o Pattern5Fixes(text) \o Pattern6Fixes(text)
    \o Pattern7Fixes(text) \o Pattern8Fixes(text)

\* The engine object: constructor (12-16) sets this.fixes = [].
NewEngine == [fixes |-> << >>]

\* The fixes collected in this.fixes instead of a list of the call.
analyzeErrorSharedList(engine, message, errorOutput, manifest) ==
  LET errorText == ErrorText(errorOutput, message)
      matched == Pattern1(errorText)
      missingPackage == IF matched THEN MissingPackage(errorText) ELSE NoPackage
      fixes == engine.fixes
                 \o SuggestedFixes(errorText, matched, missingPackage, manifest)
  IN  IF Pattern1Throws(matched, missingPackage)
      THEN [engine |-> engine, manifest |-> manifest, result |-> Threw]
      ELSE [engine |-> [fixes |-> fixes], manifest |-> manifest,
            result |-> Returned(Issues(errorText, matched, missingPackage), fixes)]

\* The build script written to package.json by the analysis itself.
analyzeErrorWritingManifest(engine, message, errorOutput, manifest) ==
  LET errorText == ErrorText(errorOutput, message)
      matched == Pattern1(errorText)
      missingPackage == IF matched THEN MissingPackage(errorText) ELSE NoPackage
      scripts == Pattern3Fixes(errorText, manifest)
  IN  [engine |-> engine,
       manifest |-> IF scripts = << >>
                    THEN manifest
                    ELSE [manifest EXCEPT !.scripts = Spread(@, scripts[1].script)],
       result |-> IF Pattern1Throws(matched, missingPackage)
                  THEN Threw
                  ELSE Returned(Issues(errorText, matched, missingPackage),
                                SuggestedFixes(errorText, matched, missingPackage,
                                               manifest))]

\* One call of the method: what it returns, and the engine and the
\* package.json it leaves.  The lists are locals of the call (28-29);
\* this.fixes is not touched, and the file is only read (112-114).
analyzeError(engine, message, errorOutput, manifest) ==
  LET errorText == ErrorText(errorOutput, message)
      matched == Pattern1(errorText)
      missingPackage == IF matched THEN MissingPackage(errorText) ELSE NoPackage
  IN  [engine |-> engine,
       manifest |-> manifest,
       result |-> IF Pattern1Throws(matched, missingPackage)
                  THEN Threw
                  ELSE Returned(Issues(errorText, matched, missingPackage),
                                SuggestedFixes(errorText, matched, missingPackage,
                                               manifest))]

(***************************************************************************)
(* State.                                                                  *)
(***************************************************************************)
VARIABLES
  manifest,      \* package.json in the project directory
  errorLog,      \* .deployease-build-error.log
  buildCmd,      \* projectInfo.buildCmd
  engine,        \* the AutoFixEngine object
  analysis,      \* const analysis of buildWithAutoFix
  pc,            \* where buildWithAutoFix is: the await it is suspended at
  attempt,       \* let attempt
  buildSuccess,  \* let buildSuccess
  fixIndex,      \* position of the for loop in autoFixableFixes
  fixesApplied,  \* let fixesApplied
  thrown,        \* buildWithAutoFix ended with an exception
  trace,         \* the calls made so far to the collaborators and the engine
  input,         \* <<message, errorOutput>> given to analyzeError
  results,       \* what each analyzeError call on input gave, in order
  priorCalls,    \* analyzeError calls made on other texts
  published,     \* how deploy went on after its build step
  givenFix,      \* the fix given to applyFix, call after call
  outcomes       \* what each of those calls found, did and returned

vars ==
  <<manifest, errorLog, buildCmd, engine, analysis, pc, attempt, buildSuccess,
    fixIndex, fixesApplied, thrown, trace, input, results, priorCalls,
    published, givenFix, outcomes>>

sessionVars ==
  <<pc, attempt, buildSuccess, fixIndex, fixesApplied, thrown, trace>>

engineVars == <<input, results, priorCalls>>

applyVars == <<givenFix, outcomes>>

(***************************************************************************)
(* The inputs of the engine.                                               *)
(***************************************************************************)
\* One trigger of each rule, in rule order.
PrimaryTriggers ==
  <<TokN("cfmq", LeftPad), Tok("enoent"), Tok("nm"), Tok("msb"), Tok("syntax"),
    Tok("tserr"), Tok("eacces"), Tok("heap"), Tok("eaddr")>>

Reverse(sq) == [i \in 1..Len(sq) |-> sq[Len(sq) + 1 - i]]

Rotate(sq, r) == [i \in 1..Len(sq) |-> sq[((i + r - 1) % Len(sq)) + 1]]

\* Texts in which every rule triggers, the triggers in different orders.
LongTexts ==
  {Rotate(PrimaryTriggers, r) : r \in 0..(Len(PrimaryTriggers) - 1)}
    \cup {Rotate(Reverse(PrimaryTriggers), r) : r \in 0..(Len(PrimaryTriggers) - 1)}

\* Two triggers, in either order.
TwoTriggerTexts ==
  {<<PrimaryTriggers[i], PrimaryTriggers[j]>> :
     i \in DOMAIN PrimaryTriggers, j \in DOMAIN PrimaryTriggers}

\* The two literals of each /a.*b/ of the engine: in order, swapped, on two
\* lines and with other text between them.
DotStarPairs ==
  {<<Tok("enoent"), Tok("nm")>>, <<Tok("cfm"), Tok("nm")>>,
   <<Tok("missing"), Tok("package")>>, <<Tok("msb"), Tok("package")>>,
   <<Tok("nems"), Tok("package")>>, <<Tok("rs"), Tok("nf")>>,
   <<Tok("fatal"), Tok("heaplim")>>, <<Tok("port"), Tok("inuse")>>}

DotStarTexts ==
  UNION {{<<pr[1], pr[2]>>, <<pr[2], pr[1]>>, <<pr[1], Tok("nl"), pr[2]>>,
          <<pr[1], Tok("other"), pr[2]>>} : pr \in DotStarPairs}

\* Shell messages about react-scripts, and texts where two alternatives of
\* the name-extraction expression match.
ExtractionTexts ==
  {<<Tok("sh"), Tok("rs"), Tok("cnf")>>,
   <<Tok("sh1"), Tok("rs"), Tok("colnf")>>,
   <<Tok("sh1"), Tok("rs"), Tok("cnf")>>,
   <<Tok("rs"), Tok("cnf")>>,
   <<Tok("rs"), Tok("colnf")>>,
   <<Tok("sh"), Tok("package"), Tok("cnf")>>,
   <<TokN("cfmq", ReactScripts), Tok("nf")>>,
   <<TokN("npmmiss", LeftPad), TokN("cfmq", Vite)>>,
   <<TokN("cfmq", Vite), TokN("npmmiss", LeftPad)>>,
   <<Tok("rs"), Tok("nf"), TokN("cfmq", LeftPad)>>,
   <<TokN("cfmq", ConstructorName), Tok("heap")>>,
   <<TokN("cfmq", ConstructorName), Tok("msb")>>}

Texts ==
  SeqsUpTo(Tokens, MaxLen) \cup TwoTriggerTexts \cup DotStarTexts
    \cup ExtractionTexts \cup LongTexts

CommandFailed == <<Tok("cmdfail")>>

\* buildError.message is read only when errorOutput is empty.
Messages == {<< >>, CommandFailed, <<Tok("heap")>>}

Inputs ==
  {<<CommandFailed, t>> : t \in Texts \ {<< >>}}
    \cup {<<m, << >> >> : m \in Messages}

PriorTexts == {<<TokN("cfmq", LeftPad)>>, <<Tok("msb"), Tok("heap")>>}

Dependencies(names) == [key \in names |-> "^1.0.0"]

PlainManifest ==
  Manifest(TRUE, TRUE, {}, EmptyObject, EmptyObject, EmptyObject)
ReactManifest ==
  Manifest(TRUE, TRUE, {"dependencies"}, Dependencies({"react", "react-scripts"}),
           EmptyObject, EmptyObject)
ViteManifest ==
  Manifest(TRUE, TRUE, {"devDependencies", "scripts"}, EmptyObject,
           Dependencies({"vite"}), Obj1("dev", "vite"))
ReactViteManifest ==
  Manifest(TRUE, TRUE, {"dependencies", "devDependencies", "scripts"},
           Dependencies({"react-scripts"}), Dependencies({"vite"}),
           Obj1("build", "tsc"))

Manifests ==
  {NoManifest, BadManifest, PlainManifest, ReactManifest, ViteManifest,
   ReactViteManifest}

(***************************************************************************)
(* The engine on its own: analyzeError called on one input, again and      *)
(* again, with calls on other texts in between.                            *)
(***************************************************************************)
InitAnalyze ==
  /\ manifest \in Manifests
  /\ input \in Inputs
  /\ errorLog = << >>
  /\ buildCmd = NpmRunBuild
  /\ engine = NewEngine
  /\ analysis = NoAnalysis
  /\ results = << >>
  /\ priorCalls = 0
  /\ pc = "idle"
  /\ attempt = 0
  /\ buildSuccess = FALSE
  /\ fixIndex = 0
  /\ fixesApplied = 0
  /\ thrown = FALSE
  /\ trace = << >>
  /\ published = "no"
  /\ givenFix = NoFix
  /\ outcomes = << >>

Analyze ==
  /\ Len(results) < MaxCalls
  /\ LET call == analyzeError(engine, input[1], input[2], manifest)
     IN  /\ engine' = call.engine
         /\ manifest' = call.manifest
         /\ analysis' = call.result
         /\ results' = Append(results, call.result)
  /\ UNCHANGED <<errorLog, buildCmd, input, priorCalls>>
  /\ UNCHANGED sessionVars
  /\ UNCHANGED applyVars
  /\ UNCHANGED published

AnalyzeOther ==
  /\ priorCalls < 1
  /\ \E t \in PriorTexts :
       LET call == analyzeError(engine, CommandFailed, t, manifest)
       IN  /\ engine' = call.engine
           /\ manifest' = call.manifest
  /\ priorCalls' = priorCalls + 1
  /\ UNCHANGED <<errorLog, buildCmd, analysis, input, results>>
  /\ UNCHANGED sessionVars
  /\ UNCHANGED applyVars
  /\ UNCHANGED published

NextAnalyze == Analyze \/ AnalyzeOther

SpecAnalyze == InitAnalyze /\ [][NextAnalyze]_vars


(***************************************************************************)
(* applyFix (autoFixEngine.js 255-292).  ext is what the outside world     *)
(* does: whether the install command exits with 0, and what the write of   *)
(* package.json does ("ok"; "error": it raises and leaves the file;        *)
(* "torn": it raises and leaves a file that no longer parses).             *)
(***************************************************************************)
Externals == [installOk : BOOLEAN, write : {"ok", "error", "torn"}]

\* The spread the other way round: a script the file already has is kept.
AddBuildScriptKeepingOld(m, script) ==
  [m EXCEPT !.has = @ \cup {"scripts"}, !.scripts = Spread(script, @),
            !.format = "pretty"]

\* The scripts of the file replaced by the script of the fix.
AddBuildScriptReplacingScripts(m, script) ==
  [m EXCEPT !.has = @ \cup {"scripts"}, !.scripts = script, !.format = "pretty"]

\* packageJson.scripts = { ...packageJson.scripts, ...fix.script }, written back.
AddBuildScript(m, script) ==
  [m EXCEPT !.has = @ \cup {"scripts"}, !.scripts = Spread(@, script),
            !.format = "pretty"]

\* What a call of applyFix gives its caller, a boolean or an exception, the
\* package.json it leaves and what it did to the outside: "exec", the
\* install command run with execSync; "write", writeFileSync called on
\* package.json; "none".
Applied(success, m, did) ==
  [success |-> success, manifest |-> m, threw |-> FALSE, did |-> did]

ApplyThrew(m, did) ==
  [success |-> FALSE, manifest |-> m, threw |-> TRUE, did |-> did]

\* The method without its try/catch: a failing step raises to the caller.
applyFixUncaught(fix, m, ext) ==
  IF fix.type \in {"install_package", "install_dependencies"}
  THEN IF ext.installOk THEN Applied(TRUE, m, "exec") ELSE ApplyThrew(m, "exec")
  ELSE IF fix.type = "add_build_script" /\ m.exists
       THEN IF ~m.parses
            THEN ApplyThrew(m, "none")
            ELSE CASE ext.write = "ok" ->
                        Applied(TRUE, AddBuildScript(m, fix.script), "write")
                   [] ext.write = "error" -> ApplyThrew(m, "write")
                   [] ext.write = "torn" -> ApplyThrew(BadManifest, "write")
       ELSE Applied(fix.type = "increase_memory", m, "none")

\* The action of the fix run as a command whatever the type of the fix.
applyFixRunningAction(fix, m, ext) ==
  IF fix.type # "add_build_script"
  THEN Applied(ext.installOk, m, "exec")
  ELSE IF m.exists
       THEN IF ~m.parses
            THEN Applied(FALSE, m, "none")
            ELSE CASE ext.write = "ok" ->
                        Applied(TRUE, AddBuildScript(m, fix.script), "write")
                   [] ext.write = "error" -> Applied(FALSE, m, "write")
                   [] ext.write = "torn" -> Applied(FALSE, BadManifest, "write")
       ELSE Applied(FALSE, m, "none")

\* Every step is inside try (256-287); catch (288-291) returns false.
applyFix(fix, m, ext) ==
  IF fix.type \in {"install_package", "install_dependencies"}
  THEN Applied(ext.installOk, m, "exec")
  ELSE IF fix.type = "add_build_script" /\ m.exists
       THEN IF ~m.parses
            THEN Applied(FALSE, m, "none")
            ELSE CASE ext.write = "ok" ->
                        Applied(TRUE, AddBuildScript(m, fix.script), "write")
                   [] ext.write = "error" -> Applied(FALSE, m, "write")
                   [] ext.write = "torn" -> Applied(FALSE, BadManifest, "write")
       ELSE Applied(fix.type = "increase_memory", m, "none")

(***************************************************************************)
(* detectProjectType (deploy.js 27-136): the build command, NoCommand for  *)
(* a project that is not built.                                            *)
(***************************************************************************)
detectProjectType(m) ==
  IF ~(m.exists /\ m.parses)
  THEN NoCommand
  ELSE LET deps == Spread(m.dependencies, m.devDependencies)
       IN  CASE Truthy(deps, "react-scripts") -> NpmRunBuild
             [] Truthy(deps, "next") ->
                  IF Truthy(m.scripts, "export")
                  THEN NpmRunBuildAndExport
                  ELSE NpmRunBuild
             [] Truthy(deps, "vite") -> NpmRunBuild
             [] Truthy(deps, "vue") \/ Truthy(deps, "@vue/cli-service") -> NpmRunBuild
             [] Truthy(deps, "@angular/core") -> NpmRunBuild
             [] Truthy(m.scripts, "build") -> NpmRunBuild
             [] OTHER -> NoCommand

(***************************************************************************)
(* buildWithAutoFix (deploy.js 155-314).                                   *)
(***************************************************************************)
maxRetries == 2

NextExportManifest ==
  Manifest(TRUE, TRUE, {"dependencies", "scripts"}, Dependencies({"next", "react"}),
           EmptyObject, Spread(Obj1("build", "next build"), Obj1("export", "next export")))

SessionManifests ==
  {mf \in Manifests \cup {NextExportManifest} : detectProjectType(mf) # NoCommand}

\* What a failing build prints.
SessionTokens ==
  {TokN("cfmq", LeftPad), TokN("cfmq", ConstructorName), Tok("enoent"), Tok("nm"),
   Tok("msb"), Tok("syntax"), Tok("heap"), Tok("other")}

SessionTexts == SeqsUpTo(SessionTokens, SessionMaxLen)

\* <<stderr, stdout>> of a failed build: the text on stderr, or on stdout only.
BuildOutputs ==
  {<<t, << >> >> : t \in SessionTexts}
    \cup {<< << >>, t>> : t \in {<<Tok("heap")>>, <<Tok("other")>>}}

\* What the retry prints when it fails: it is stored and never analysed.
RetryOutputs ==
  {<<t, << >> >> : t \in SeqsUpTo(SessionTokens, 1)}

\* (buildErr.stderr || buildErr.stdout || buildErr.message || "").toString()
ErrorOutput(stderr, stdout, message) ==
  IF stderr # << >> THEN stderr ELSE IF stdout # << >> THEN stdout ELSE message

\* storeBuildError (141-150): a write that fails is ignored.
storeBuildError(log, errorOutput, written) ==
  IF Len(errorOutput) > 0 /\ written THEN errorOutput ELSE log

Event(e, cmd, ok, fix) == [e |-> e, cmd |-> cmd, ok |-> ok, fix |-> fix]

\* The list without the filter.
AllSuggestedFixes(fixes) == fixes

\* analysis.suggestedFixes.filter((f) => f.autoFixable)
AutoFixableFixes(fixes) == SelectSeq(fixes, LAMBDA f : f.autoFixable)

\* autoFixableFixes.find((f) => f.type === "increase_memory")
HasMemoryFix(fixes) == \E i \in DOMAIN fixes : fixes[i].type = "increase_memory"

MemoryFix(fixes) ==
  fixes[CHOOSE i \in DOMAIN fixes :
          /\ fixes[i].type = "increase_memory"
          /\ \A j \in 1..(i - 1) : fixes[j].type # "increase_memory"]

Init ==
  /\ manifest \in SessionManifests
  /\ buildCmd = detectProjectType(manifest)
  /\ errorLog = << >>
  /\ engine = NewEngine
  /\ analysis = NoAnalysis
  /\ pc = "build"
  /\ attempt = 0
  /\ buildSuccess = FALSE
  /\ fixIndex = 0
  /\ fixesApplied = 0
  /\ thrown = FALSE
  /\ trace = << >>
  /\ input = << << >>, << >> >>
  /\ results = << >>
  /\ priorCalls = 0
  /\ published = "no"
  /\ givenFix = NoFix
  /\ outcomes = << >>

\* The loop condition without its test of buildSuccess.
LoopContinuesIgnoringSuccess(att, success) == att <= maxRetries

\* while (attempt <= maxRetries && !buildSuccess)
LoopContinues(att, success) == att <= maxRetries /\ ~success

\* Back at the head of the loop: another build, or the return of 309-313.
LoopTest(att, success) == IF LoopContinues(att, success) THEN "build" ELSE "done"

\* Every failure analysed, not only the first.
AnalyzesEveryFailure(att) == att >= 1

\* if (attempt === 1): only the first failure is analysed (213).
AnalyzesFailure(att) == att = 1

\* The else branch without its return: back to the head of the loop.
AfterRetryFailureFallsThrough(att) == LoopTest(att, FALSE)

\* The else branch (298-305): a failure that is not analysed ends the session.
AfterRetryFailure(att) == "done"

\* The fixes applied whatever the user answers.
AfterConfirmIgnoringAnswer(apply) == "apply"

\* if (shouldAutoFix.apply) ... else return (251, 278-282).
AfterConfirm(apply) == IF apply THEN "apply" ELSE "done"

\* execAsync resolves: the build exited with 0.
BuildSucceeds ==
  /\ pc = "build"
  /\ LoopContinues(attempt, buildSuccess)
  /\ buildSuccess' = TRUE
  /\ trace' = Append(trace, Event("build", buildCmd, TRUE, NoFix))
  /\ pc' = LoopTest(attempt, TRUE)
  /\ UNCHANGED <<manifest, errorLog, buildCmd, engine, analysis, attempt,
                 fixIndex, fixesApplied, thrown>>
  /\ UNCHANGED engineVars
  /\ UNCHANGED applyVars
  /\ UNCHANGED published

\* The user asked whenever a fix is suggested, auto-fixable or not.
AfterAnalysisAnyFix(result) ==
  IF result.status = "threw"
  THEN "threw"
  ELSE IF Len(result.issues) > 0 /\ Len(result.suggestedFixes) > 0
       THEN "prompt"
       ELSE "done"

\* After the analysis of the first failure (221-297): ask the user, or return.
AfterAnalysis(result) ==
  IF result.status = "threw"
  THEN "threw"
  ELSE IF /\ Len(result.issues) > 0
          /\ Len(result.suggestedFixes) > 0
          /\ Len(AutoFixableFixes(result.suggestedFixes)) > 0
       THEN "prompt"
       ELSE "done"

\* execAsync rejects: the catch block (194-306), up to its first await or return.
BuildFails ==
  /\ pc = "build"
  /\ LoopContinues(attempt, buildSuccess)
  /\ attempt' = attempt + 1
  /\ \E out \in (IF attempt = 0 THEN BuildOutputs ELSE RetryOutputs) :
     \E written \in BOOLEAN :
       LET errorOutput == ErrorOutput(out[1], out[2], CommandFailed)
           built == Append(trace, Event("build", buildCmd, FALSE, NoFix))
       IN  /\ errorLog' = storeBuildError(errorLog, errorOutput, written)
           /\ IF AnalyzesFailure(attempt')
              THEN LET call == analyzeError(NewEngine, CommandFailed, errorOutput,
                                            manifest)
                       next == AfterAnalysis(call.result)
                   IN  /\ engine' = call.engine
                       /\ manifest' = call.manifest
                       /\ analysis' = call.result
                       /\ trace' = Append(built, Event("analyze", NoCommand, TRUE, NoFix))
                       /\ pc' = IF next = "prompt" THEN "prompt" ELSE "done"
                       /\ thrown' = (next = "threw")
              ELSE /\ pc' = AfterRetryFailure(attempt')
                   /\ trace' = built
                   /\ UNCHANGED <<manifest, engine, analysis, thrown>>
  /\ UNCHANGED <<buildCmd, buildSuccess, fixIndex, fixesApplied>>
  /\ UNCHANGED engineVars
  /\ UNCHANGED applyVars
  /\ UNCHANGED published

\* inquirer.prompt resolves with the user's answer (240-282).
Confirm ==
  /\ pc = "prompt"
  /\ \E apply \in BOOLEAN :
       /\ trace' = Append(trace, Event("prompt", NoCommand, apply, NoFix))
       /\ pc' = AfterConfirm(apply)
       /\ fixIndex' = IF apply THEN 1 ELSE fixIndex
  /\ fixesApplied' = 0
  /\ UNCHANGED <<manifest, errorLog, buildCmd, engine, analysis, attempt,
                 buildSuccess, thrown>>
  /\ UNCHANGED engineVars
  /\ UNCHANGED applyVars
  /\ UNCHANGED published

\* The retry run with the command of the first build.
AfterFixesKeepingCommand(applied, fixes, cmd, att) ==
  [pc |-> LoopTest(att, FALSE), buildCmd |-> cmd]

\* After the for loop (261-277): the command of the retry and where to go.
\* With a fix applied it continues the loop; with none it reports the failure
\* and leaves the catch block, which also leads back to the head of the loop.
AfterFixes(applied, fixes, cmd, att) ==
  IF applied > 0
  THEN [pc |-> LoopTest(att, FALSE),
        buildCmd |-> IF HasMemoryFix(fixes) THEN MemoryFix(fixes).action ELSE cmd]
  ELSE [pc |-> LoopTest(att, FALSE), buildCmd |-> cmd]

\* await autoFix.applyFix(fix) resolves (256-259) and, after the last fix,
\* the code up to the next await.
ApplyFix ==
  /\ pc = "apply"
  /\ LET fixes == AutoFixableFixes(analysis.suggestedFixes)
         fix == fixes[fixIndex]
     IN  \E ext \in Externals :
           LET r == applyFix(fix, manifest, ext)
               applied == IF r.success THEN fixesApplied + 1 ELSE fixesApplied
               after == AfterFixes(applied, fixes, buildCmd, attempt)
           IN  /\ manifest' = r.manifest
               /\ trace' = Append(trace, Event("apply", NoCommand, r.success, fix))
               /\ fixesApplied' = applied
               /\ thrown' = r.threw
               /\ IF r.threw
                  THEN /\ pc' = "done"
                       /\ UNCHANGED <<fixIndex, buildCmd>>
                  ELSE IF fixIndex < Len(fixes)
                       THEN /\ fixIndex' = fixIndex + 1
                            /\ UNCHANGED <<pc, buildCmd>>
                       ELSE /\ fixIndex' = fixIndex
                            /\ pc' = after.pc
                            /\ buildCmd' = after.buildCmd
  /\ UNCHANGED <<errorLog, engine, analysis, attempt, buildSuccess>>
  /\ UNCHANGED engineVars
  /\ UNCHANGED applyVars
  /\ UNCHANGED published

\* deploy after its build step (deploy.js 445-668).  buildWithAutoFix returns
\* no value and deploy does not look at how the build ended; an exception the
\* build step raised goes to the catch (663-667).  ready: the deploy
\* directory holds an index.html, a token is there and the git steps succeed.
AfterBuildStep(threw, ready) ==
  IF threw THEN "stopped" ELSE IF ready THEN "published" ELSE "stopped"

Deploy ==
  /\ pc = "done"
  /\ published = "no"
  /\ \E ready \in BOOLEAN : published' = AfterBuildStep(thrown, ready)
  /\ UNCHANGED <<manifest, errorLog, buildCmd, engine, analysis>>
  /\ UNCHANGED sessionVars
  /\ UNCHANGED engineVars
  /\ UNCHANGED applyVars

Next == BuildSucceeds \/ BuildFails \/ Confirm \/ ApplyFix \/ Deploy

Spec == Init /\ [][Next]_vars

\* Every await of a session returns: the build, the prompt, each fix.
LiveSpec == Spec /\ WF_vars(Next)


(***************************************************************************)
(* applyFix on its own: one fix applied to package.json again and again.   *)
(***************************************************************************)
FixesToApply ==
  {Pattern3Fixes(<<Tok("msb")>>, ReactManifest)[1],
   Pattern3Fixes(<<Tok("msb")>>, ViteManifest)[1],
   Pattern1Fixes(TRUE, LeftPad)[1],
   Pattern2Fixes(<<Tok("enoent"), Tok("nm")>>)[1],
   Pattern4Fixes(<<Tok("syntax")>>)[1],
   Pattern7Fixes(<<Tok("heap")>>)[1]}

InitApply ==
  /\ manifest \in Manifests \cup {NextExportManifest}
  /\ givenFix \in FixesToApply
  /\ outcomes = << >>
  /\ errorLog = << >>
  /\ buildCmd = NpmRunBuild
  /\ engine = NewEngine
  /\ analysis = NoAnalysis
  /\ input = << << >>, << >> >>
  /\ results = << >>
  /\ priorCalls = 0
  /\ pc = "idle"
  /\ attempt = 0
  /\ buildSuccess = FALSE
  /\ fixIndex = 0
  /\ fixesApplied = 0
  /\ thrown = FALSE
  /\ trace = << >>
  /\ published = "no"

Outcome(before, ext, r) ==
  [before |-> before, ext |-> ext, success |-> r.success, threw |-> r.threw,
   did |-> r.did, after |-> r.manifest]

Apply ==
  /\ Len(outcomes) < MaxApplications
  /\ \E ext \in Externals :
       LET r == applyFix(givenFix, manifest, ext)
       IN  /\ manifest' = r.manifest
           /\ outcomes' = Append(outcomes, Outcome(manifest, ext, r))
  /\ UNCHANGED <<errorLog, buildCmd, engine, analysis, givenFix, published>>
  /\ UNCHANGED sessionVars
  /\ UNCHANGED engineVars

NextApply == Apply

SpecApply == InitApply /\ [][NextApply]_vars


(***************************************************************************)
(* Properties of a build session.                                          *)
(***************************************************************************)
EventsOf(kind) == SelectSeq(trace, LAMBDA ev : ev.e = kind)

Builds == EventsOf("build")

\* The builds run before the i-th call of the trace.
BuildsBefore(i) == Len(SelectSeq(SubSeq(trace, 1, i - 1), LAMBDA ev : ev.e = "build"))

Accepted == \E i \in DOMAIN trace : trace[i].e = "prompt" /\ trace[i].ok

Declined == \E i \in DOMAIN trace : trace[i].e = "prompt" /\ ~trace[i].ok

Succeeded == pc = "done" /\ buildSuccess

Failed == pc = "done" /\ ~buildSuccess

\* C1: a session runs the build command at most twice, and when the first
\* two builds both fail the session has ended Failed: there is no third build.
C1_AtMostTwoBuilds ==
  /\ Len(Builds) <= 2
  /\ (Len(Builds) = 2 /\ ~Builds[1].ok /\ ~Builds[2].ok) => Failed

C1_Witness ==
  /\ Len(Builds) = 2
  /\ ~Builds[1].ok
  /\ ~Builds[2].ok
  /\ Len(EventsOf("apply")) > 0
  /\ Failed

\* C2: when the user accepted and every applyFix call reported failure, the
\* session is Failed at once and the build command has run only once.
C2_NoRetryWhenNoFixApplied ==
  (/\ Accepted
   /\ pc # "apply"
   /\ \A i \in DOMAIN trace : trace[i].e = "apply" => ~trace[i].ok)
    => (Failed /\ Len(Builds) = 1)

\* C3: applyFix is called only after the prompt was answered yes; when the
\* user declines no fix is applied, the build is not retried and the session
\* is Failed after exactly one build.
C3_NoFixWithoutConsent ==
  /\ \A i \in DOMAIN trace :
       trace[i].e = "apply" =>
         \E j \in 1..(i - 1) : trace[j].e = "prompt" /\ trace[j].ok
  /\ Declined => (Len(EventsOf("apply")) = 0 /\ Len(Builds) = 1 /\ Failed)

C3_Witness == Declined /\ Failed /\ analysis.canAutoFix

\* C4: when the analysis of the first failed build holds no auto-fixable
\* fix, the session is Failed after exactly one build, applyFix was never
\* called and the user was never asked.
C4_ManualOnlyShortCircuit ==
  (/\ analysis.status = "returned"
   /\ \A i \in DOMAIN analysis.suggestedFixes :
        ~analysis.suggestedFixes[i].autoFixable)
    => /\ Failed
       /\ Len(Builds) = 1
       /\ Len(EventsOf("apply")) = 0
       /\ Len(EventsOf("prompt")) = 0

C4_Witness ==
  /\ analysis.status = "returned"
  /\ Len(analysis.suggestedFixes) > 0
  /\ \A i \in DOMAIN analysis.suggestedFixes :
       ~analysis.suggestedFixes[i].autoFixable
  /\ Failed

\* C5: when the analysis of the first failure holds an increase_memory fix
\* and the user accepted, the command of the second build differs from the
\* command of the first and holds the memory-limit directive.
C5_MemoryFixChangesCommand ==
  (/\ HasMemoryFix(analysis.suggestedFixes)
   /\ Accepted
   /\ Len(Builds) = 2)
    => /\ Builds[2].cmd # Builds[1].cmd
       /\ \E w \in DOMAIN Builds[2].cmd.words : Builds[2].cmd.words[w] = MemoryDirective

C5_Witness ==
  /\ HasMemoryFix(analysis.suggestedFixes)
  /\ Accepted
  /\ Len(Builds) = 2
  /\ Builds[1].cmd = NpmRunBuildAndExport

\* C6: analyzeError, the prompt and applyFix are called only in reaction to
\* the first build failure, each of the first two at most once: every such
\* call comes after the first build, which failed, and before any second.
C6_AutoFixOnlyAfterFirstFailure ==
  /\ Len(EventsOf("analyze")) <= 1
  /\ Len(EventsOf("prompt")) <= 1
  /\ \A i \in DOMAIN trace :
       trace[i].e \in {"analyze", "prompt", "apply"} =>
         BuildsBefore(i) = 1 /\ ~Builds[1].ok

C6_Witness ==
  /\ Len(Builds) = 2
  /\ ~Builds[2].ok
  /\ Len(EventsOf("apply")) > 0
  /\ pc = "done"

\* C7: every session reaches a terminal state, and a terminal state is
\* Succeeded exactly when the last build of the session exited with 0.
C7_TerminatesWithLastBuildOutcome ==
  /\ <>(pc = "done")
  /\ [](pc = "done" =>
          /\ Len(Builds) > 0
          /\ Succeeded <=> Builds[Len(Builds)].ok
          /\ Failed <=> ~Builds[Len(Builds)].ok)

C7_Witness == Succeeded /\ Len(Builds) = 2


(***************************************************************************)
(* Properties of analyzeError.                                             *)
(***************************************************************************)
\* The text the calls on input analyse.
InputText == ErrorText(input[2], input[1])

\* C8: every call of analyzeError on the same text and manifest gives the
\* same issues, the same suggested fixes and the same canAutoFix, whatever
\* calls the engine served before.
C8_Deterministic ==
  \A i \in DOMAIN results : \A j \in DOMAIN results :
    /\ results[i].status = results[j].status
    /\ results[i].issues = results[j].issues
    /\ results[i].suggestedFixes = results[j].suggestedFixes
    /\ results[i].canAutoFix = results[j].canAutoFix

C8_Witness ==
  /\ Len(results) >= 2
  /\ priorCalls > 0
  /\ Len(results[2].suggestedFixes) >= 2

RuleOrder ==
  <<"missing_package", "missing_node_modules", "missing_build_script",
    "syntax_error", "typescript_error", "permission_error", "memory_error",
    "port_in_use">>

\* The trigger of the rule is in the text.
Triggered(type, text) ==
  CASE type = "missing_package" -> Pattern1(text)
    [] type = "missing_node_modules" -> Pattern2(text)
    [] type = "missing_build_script" -> Pattern3(text)
    [] type = "syntax_error" -> Pattern4(text)
    [] type = "typescript_error" -> Pattern5(text)
    [] type = "permission_error" -> Pattern6(text)
    [] type = "memory_error" -> Pattern7(text)
    [] type = "port_in_use" -> Pattern8(text)

\* The rules that suggest a fix of the type.
RulesOfFix(type) ==
  CASE type = "install_package" -> {1}
    [] type = "install_dependencies" -> {1, 2}
    [] type = "add_build_script" -> {3}
    [] type = "fix_syntax" -> {4}
    [] type = "fix_typescript" -> {5}
    [] type = "fix_permissions" -> {6}
    [] type = "increase_memory" -> {7}
    [] type = "change_port" -> {8}

InRuleOrder(result, text) ==
  /\ [i \in DOMAIN result.issues |-> result.issues[i].type]
       = SelectSeq(RuleOrder, LAMBDA type : Triggered(type, text))
  /\ \A i \in DOMAIN result.suggestedFixes :
       /\ \E r \in RulesOfFix(result.suggestedFixes[i].type) :
            Triggered(RuleOrder[r], text)
       /\ \A j \in DOMAIN result.suggestedFixes :
            i < j =>
              \E ri \in RulesOfFix(result.suggestedFixes[i].type) :
              \E rj \in RulesOfFix(result.suggestedFixes[j].type) : ri < rj

\* C9: for every text analyzeError returns a list with exactly one issue for
\* each rule whose trigger is in the text, in the order of the rules, and
\* the suggested fixes in the order of the rules.
C9_OneIssuePerTriggeredRule ==
  \A i \in DOMAIN results :
    results[i].status = "returned" /\ InRuleOrder(results[i], InputText)

\* A text whose only trigger is Cannot find module '<N>', N without "/".
OnlyCannotFindModule ==
  /\ Len(InputText) = 1
  /\ InputText[1].k = "cfmq"
  /\ Len(InputText[1].n) = 1

\* C10: for a text whose only trigger is Cannot find module '<N>' with N an
\* unscoped package name, analyzeError returns exactly one issue, a
\* missing_package for N, and exactly one fix, an auto-fixable
\* install_package whose action names N.
C10_CannotFindModule ==
  OnlyCannotFindModule =>
    \A i \in DOMAIN results :
      /\ results[i].status = "returned"
      /\ Len(results[i].issues) = 1
      /\ results[i].issues[1].type = "missing_package"
      /\ results[i].issues[1].package = InputText[1].n
      /\ Len(results[i].suggestedFixes) = 1
      /\ results[i].suggestedFixes[1].type = "install_package"
      /\ results[i].suggestedFixes[1].autoFixable
      /\ results[i].suggestedFixes[1].action.package = InputText[1].n

\* A package name as one text, its segments joined by "/".
RECURSIVE Joined(_)
Joined(name) ==
  IF name = << >>
  THEN << >>
  ELSE IF Len(name) = 1
       THEN name[1]
       ELSE name[1] \o <<"/">> \o Joined(Tail(name))

Contains(txt, sub) ==
  \E i \in 1..(Len(txt) - Len(sub) + 1) : SubSeq(txt, i, i + Len(sub) - 1) = sub

DevSubstrings ==
  {<<"react-scripts">>, <<"vite">>, <<"webpack">>, <<"typescript">>,
   <<"@", "types">>, <<"eslint">>, <<"jest">>, <<"babel">>, <<"@", "vite", "js">>}

\* The install_package fixes of the results.
InstallFixes ==
  UNION {{results[i].suggestedFixes[f] :
            f \in {g \in DOMAIN results[i].suggestedFixes :
                     results[i].suggestedFixes[g].type = "install_package"}} :
         i \in DOMAIN results}

\* C11: the install action of an install_package fix names the package of
\* the fix and carries --save-dev exactly when that name contains one of the
\* listed substrings: vite is installed as a development dependency,
\* left-pad as a regular one.
C11_DevDependencyRouting ==
  \A fx \in InstallFixes :
    /\ fx.action.words = <<"npm install">>
    /\ fx.action.package = fx.package
    /\ fx.action.saveDev <=>
         \E sub \in DevSubstrings : Contains(Joined(fx.package), sub)
    /\ fx.package = Vite => fx.action.saveDev
    /\ fx.package = LeftPad => ~fx.action.saveDev

C11_Witness ==
  \E fx \in InstallFixes : fx.package = BabelCore /\ fx.action.saveDev

\* C12: for a text in which no rule is triggered analyzeError returns no
\* issue, no suggested fix and canAutoFix = false.
C12_NoTriggerNoIssue ==
  (\A r \in DOMAIN RuleOrder : ~Triggered(RuleOrder[r], InputText))
    => \A i \in DOMAIN results :
         /\ results[i].status = "returned"
         /\ results[i].issues = << >>
         /\ results[i].suggestedFixes = << >>
         /\ results[i].canAutoFix = FALSE

C12_Witness ==
  /\ Len(results) > 0
  /\ InputText = <<Tok("other")>>
  /\ results[1].issues = << >>

\* C13: in every result analyzeError returns, canAutoFix is true exactly
\* when some suggested fix is auto-fixable.
C13_CanAutoFixIffFixable ==
  \A i \in DOMAIN results :
    results[i].status = "returned" =>
      (results[i].canAutoFix <=>
         \E f \in DOMAIN results[i].suggestedFixes :
           results[i].suggestedFixes[f].autoFixable)

C13_Witness ==
  \E i \in DOMAIN results :
    /\ results[i].canAutoFix
    /\ \E f \in DOMAIN results[i].suggestedFixes :
         ~results[i].suggestedFixes[f].autoFixable


(***************************************************************************)
(* Properties of applyFix.                                                 *)
(***************************************************************************)
\* The second application left what the first left, both reported success,
\* and the scripts hold the script of the fix under its one key.
AppliedTwiceAsOnce ==
  /\ outcomes[1].success
  /\ outcomes[2].success
  /\ outcomes[2].after = outcomes[1].after
  /\ \A key \in DOMAIN givenFix.script :
       /\ key \in DOMAIN outcomes[2].after.scripts
       /\ outcomes[2].after.scripts[key] = givenFix.script[key]
  /\ DOMAIN outcomes[2].after.scripts
       = DOMAIN outcomes[1].before.scripts \cup DOMAIN givenFix.script

\* C14 as stated: an add_build_script fix applied twice in a row to an
\* existing manifest leaves what one application leaves, one entry for the
\* key of the fix with the value of the fix, and both applications succeed.
C14_TwiceAsOnce ==
  (/\ Len(outcomes) = 2
   /\ givenFix.type = "add_build_script"
   /\ outcomes[1].before.exists)
    => AppliedTwiceAsOnce

\* C14, amended: the same for an existing manifest that parses, when both
\* writes of the file succeed.
C14_TwiceAsOnceWhenWritten ==
  (/\ Len(outcomes) = 2
   /\ givenFix.type = "add_build_script"
   /\ outcomes[1].before.exists
   /\ outcomes[1].before.parses
   /\ outcomes[1].ext.write = "ok"
   /\ outcomes[2].ext.write = "ok")
    => AppliedTwiceAsOnce

C14_Witness ==
  /\ Len(outcomes) = 2
  /\ givenFix.type = "add_build_script"
  /\ outcomes[1].before = ReactViteManifest
  /\ outcomes[1].ext.write = "ok"
  /\ outcomes[2].ext.write = "ok"
  /\ outcomes[1].after # outcomes[1].before
  /\ outcomes[2].after = outcomes[1].after


(***************************************************************************)
(* Properties of a build session and of deploy, continued.                 *)
(***************************************************************************)
Applications == EventsOf("apply")

\* The auto-fixable fixes of the analysis, in the order of its list.
FixableOfAnalysis == SelectSeq(analysis.suggestedFixes, LAMBDA f : f.autoFixable)

\* C15: applyFix raises nothing to its caller: a session never ends with an
\* exception once a fix was applied, a failed application is reported as
\* false, and the loop goes on to the fixes after it.
C15_ApplyFixNeverRaises ==
  /\ thrown => Len(Applications) = 0
  /\ (Accepted /\ pc # "apply") => Len(Applications) = Len(FixableOfAnalysis)

C15_Witness ==
  /\ pc = "done"
  /\ ~thrown
  /\ Len(Applications) = 2
  /\ Applications[1].fix.type = "add_build_script"
  /\ ~Applications[1].ok

\* C17: with the increase_memory fix applied, the retry runs the command of
\* the first build with the heap-size directive put before it.
C17_RetryPrependsDirective ==
  (/\ \E f \in DOMAIN analysis.suggestedFixes :
        analysis.suggestedFixes[f].type = "increase_memory"
   /\ Accepted
   /\ Len(Builds) = 2)
    => Builds[2].cmd.words = <<MemoryDirective>> \o Builds[1].cmd.words

\* C18: the fixes given to applyFix are the auto-fixable fixes of the
\* analysis, each once and in the order of the list, all of them once the
\* loop is over, whatever each application reported.
C18_EachFixableFixOnce ==
  /\ Len(Applications) <= Len(FixableOfAnalysis)
  /\ \A i \in DOMAIN Applications : Applications[i].fix = FixableOfAnalysis[i]
  /\ (Accepted /\ pc # "apply") => Len(Applications) = Len(FixableOfAnalysis)
  /\ Len(Applications) > 0 => Accepted

C18_Witness ==
  /\ Len(Applications) = 2
  /\ ~Applications[1].ok
  /\ Applications[2].ok
  /\ Applications[1].fix.type = "install_package"
  /\ Applications[2].fix.type = "increase_memory"

\* C19: deploy goes on to publish only when the build session ended
\* Succeeded.
C19_PublishOnlyAfterSuccess ==
  published = "published" => (pc = "done" /\ buildSuccess)


(***************************************************************************)
(* Properties of analyzeError, continued.                                  *)
(***************************************************************************)
\* C16: a call of analyzeError leaves package.json, the stored build error
\* and the build command as they were, and what it returns depends on
\* package.json only when the missing-build-script rule is triggered.
C16_AnalyzeErrorOnlyReads ==
  /\ [][/\ manifest' = manifest
        /\ errorLog' = errorLog
        /\ buildCmd' = buildCmd]_vars
  /\ [](~Pattern3(InputText) =>
          \A i \in DOMAIN results :
            results[i] = analyzeError(NewEngine, input[1], input[2],
                                      ReactManifest).result)

C16_Witness ==
  /\ Len(results) > 0
  /\ Pattern3(InputText)
  /\ manifest = ReactManifest
  /\ \E f \in DOMAIN results[1].suggestedFixes :
       results[1].suggestedFixes[f].type = "add_build_script"

\* The build script the claim expects for the manifest, if any.
ExpectedScripts ==
  IF manifest.exists /\ manifest.parses
  THEN LET deps == DOMAIN manifest.dependencies \cup DOMAIN manifest.devDependencies
       IN  IF "react-scripts" \in deps
           THEN <<Obj1("build", "react-scripts build")>>
           ELSE IF "vite" \in deps
                THEN <<Obj1("build", "vite build")>>
                ELSE << >>
  ELSE << >>

\* C20: when the missing-build-script rule is triggered the issue is
\* emitted, once, and the add_build_script fixes are the one the manifest
\* calls for: react-scripts build, else vite build, else none.
C20_BuildScriptFix ==
  Pattern3(InputText) =>
    \A i \in DOMAIN results :
      /\ results[i].status = "returned"
      /\ Len(SelectSeq(results[i].issues,
                       LAMBDA issue : issue.type = "missing_build_script")) = 1
      /\ LET added == SelectSeq(results[i].suggestedFixes,
                                LAMBDA f : f.type = "add_build_script")
         IN  /\ [f \in DOMAIN added |-> added[f].script] = ExpectedScripts
             /\ \A f \in DOMAIN added : added[f].autoFixable


(***************************************************************************)
(* Properties of the rules of analyzeError.                                *)
(***************************************************************************)
\* A shell message that react-scripts was not found is in the text.
ReactScriptsMessage(text) ==
  \/ TestDotStar(text, "react-scripts", "not found")
  \/ TestReactScriptsCommandNotFound(text)
  \/ TestShReactScriptsNotFound(text)

\* One of the three phrases about a module is in the text.
ModulePhrase(text) ==
  \/ Test(text, "cannot find module")
  \/ Test(text, "module not found")
  \/ Test(text, "cannot resolve")

IssuesOfType(result, type) == SelectSeq(result.issues, LAMBDA issue : issue.type = type)

FixesOfType(result, type) == SelectSeq(result.suggestedFixes, LAMBDA f : f.type = type)

\* The fixes rule 1 pushes: install_package, or its own install_dependencies.
Rule1Fixes(result) ==
  SelectSeq(result.suggestedFixes,
            LAMBDA f : \/ f.type = "install_package"
                       \/ /\ f.type = "install_dependencies"
                          /\ f.description = "Install missing dependencies")

\* C21: when rule 1 is triggered by a react-scripts-not-found shell message
\* alone, the package of the issue is react-scripts and the fix of the rule
\* is install_package for react-scripts, not the install_dependencies fallback.
C21_ReactScriptsExtracted ==
  (/\ ReactScriptsMessage(InputText)
   /\ ~ModulePhrase(InputText)
   /\ ~TestDotStar(InputText, "missing", "package"))
    => \A i \in DOMAIN results :
         /\ results[i].status = "returned"
         /\ Len(IssuesOfType(results[i], "missing_package")) = 1
         /\ IssuesOfType(results[i], "missing_package")[1].package = ReactScripts
         /\ Len(Rule1Fixes(results[i])) = 1
         /\ Rule1Fixes(results[i])[1].type = "install_package"
         /\ Rule1Fixes(results[i])[1].package = ReactScripts

\* C22: a missing_package issue is emitted exactly when the text holds one
\* of the three phrases about a module or a react-scripts-not-found shell
\* message, and for no other text.
C22_MissingPackageTriggers ==
  \A i \in DOMAIN results :
    Len(IssuesOfType(results[i], "missing_package")) > 0
      <=> (ModulePhrase(InputText) \/ ReactScriptsMessage(InputText))

\* C23: when rule 1 is triggered it emits exactly one fix: with no name
\* extracted the package of the issue is absent and the fix is the
\* auto-fixable install_dependencies with action npm install; with a name
\* extracted the fix is install_package.
C23_OneFixOfRule1 ==
  Pattern1(InputText) =>
    \A i \in DOMAIN results :
      /\ results[i].status = "returned"
      /\ Len(IssuesOfType(results[i], "missing_package")) = 1
      /\ Len(Rule1Fixes(results[i])) = 1
      /\ LET issue == IssuesOfType(results[i], "missing_package")[1]
             f == Rule1Fixes(results[i])[1]
         IN  /\ issue.package = MissingPackage(InputText)
             /\ issue.package = NoPackage =>
                  /\ f.type = "install_dependencies"
                  /\ f.autoFixable
                  /\ f.action.words = <<"npm install">>
                  /\ f.action.package = NoPackage
                  /\ ~f.action.saveDev
             /\ issue.package # NoPackage => f.type = "install_package"

\* The segment without its quote characters.
Unquoted(seg) == SelectSeq(seg, LAMBDA atom : atom \notin {"'", "\""})

\* The install target the claim gives for an extracted name.
InstallTarget(name) ==
  LET kept == IF Len(name) > 1
              THEN <<name[1], name[2]>>
              ELSE <<Unquoted(name[1])>>
  IN  IF kept = << <<"react">>, <<"react">> >> THEN << <<"react">> >> ELSE kept

\* C24: the package of an install_package fix and the package its action
\* names are the install target of the extracted name: its first two
\* segments when it holds a "/", else the name without quotes, then the
\* alias table, which leaves every name it does not list as it is.
C24_InstallTarget ==
  (Pattern1(InputText) /\ MissingPackage(InputText) # NoPackage) =>
    \A i \in DOMAIN results :
      /\ results[i].status = "returned"
      /\ Len(FixesOfType(results[i], "install_package")) = 1
      /\ LET f == FixesOfType(results[i], "install_package")[1]
         IN  /\ f.package = InstallTarget(MissingPackage(InputText))
             /\ f.action.package = InstallTarget(MissingPackage(InputText))

ManualFixTypes == {"fix_syntax", "fix_typescript", "fix_permissions", "change_port"}

ManualIssueFix ==
  [type \in {"syntax_error", "typescript_error", "permission_error", "port_in_use"} |->
     CASE type = "syntax_error" -> "fix_syntax"
       [] type = "typescript_error" -> "fix_typescript"
       [] type = "permission_error" -> "fix_permissions"
       [] type = "port_in_use" -> "change_port"]

\* C25: the fix emitted for a syntax_error, typescript_error,
\* permission_error or port_in_use issue is never auto-fixable and its action
\* is manual_fix.
C25_ManualFixesNotAutoFixable ==
  \A i \in DOMAIN results :
    /\ \A f \in DOMAIN results[i].suggestedFixes :
         results[i].suggestedFixes[f].type \in ManualFixTypes =>
           /\ ~results[i].suggestedFixes[f].autoFixable
           /\ results[i].suggestedFixes[f].action.words = <<"manual_fix">>
    /\ \A type \in DOMAIN ManualIssueFix :
         Len(IssuesOfType(results[i], type)) = Len(FixesOfType(results[i], ManualIssueFix[type]))

C25_Witness ==
  \E i \in DOMAIN results :
    /\ \A type \in ManualFixTypes : Len(FixesOfType(results[i], type)) = 1
    /\ results[i].canAutoFix

\* C28: analyzeError returns a result for every text and every manifest, and
\* with a manifest that is missing or does not parse the missing_build_script
\* issue is reported without an add_build_script fix.
C28_AnalyzeErrorNeverRaises ==
  \A i \in DOMAIN results :
    /\ results[i].status = "returned"
    /\ (Pattern3(InputText) /\ ~(manifest.exists /\ manifest.parses)) =>
         /\ Len(IssuesOfType(results[i], "missing_build_script")) = 1
         /\ Len(FixesOfType(results[i], "add_build_script")) = 0

\* C29: no result holds two auto-fixable fixes with the same action command.
C29_NoDuplicateCommand ==
  \A i \in DOMAIN results :
    \A f \in DOMAIN results[i].suggestedFixes :
      \A g \in DOMAIN results[i].suggestedFixes :
        (/\ f < g
         /\ results[i].suggestedFixes[f].autoFixable
         /\ results[i].suggestedFixes[g].autoFixable)
          => results[i].suggestedFixes[f].action # results[i].suggestedFixes[g].action

AppliedFixTypes ==
  {"install_package", "install_dependencies", "add_build_script", "increase_memory"}

\* C30: a suggested fix is auto-fixable exactly when its type is one that
\* applyFix handles, so an auto-fixable fix applied to a well-formed
\* manifest with every outside step succeeding reports success.
C30_AutoFixableIsHandled ==
  \A i \in DOMAIN results :
    \A f \in DOMAIN results[i].suggestedFixes :
      LET fx == results[i].suggestedFixes[f]
      IN  /\ fx.autoFixable <=> fx.type \in AppliedFixTypes
          /\ fx.autoFixable =>
               applyFix(fx, ReactManifest, [installOk |-> TRUE, write |-> "ok"]).success

C30_Witness ==
  \E i \in DOMAIN results :
    /\ Len(FixesOfType(results[i], "add_build_script")) = 1
    /\ Len(FixesOfType(results[i], "increase_memory")) = 1
    /\ Len(FixesOfType(results[i], "fix_syntax")) = 1


(***************************************************************************)
(* Properties of applyFix, continued.                                      *)
(***************************************************************************)
\* C26: a successful add_build_script application sets every key of the
\* script of the fix to the value of the fix, keeps every other script,
\* creates the scripts section when it is missing and leaves the other
\* fields of the manifest as they were.
C26_OnlyScriptsChange ==
  \A o \in DOMAIN outcomes :
    (givenFix.type = "add_build_script" /\ outcomes[o].success) =>
      LET before == outcomes[o].before
          after == outcomes[o].after
      IN  /\ DOMAIN after.scripts = DOMAIN before.scripts \cup DOMAIN givenFix.script
          /\ \A key \in DOMAIN givenFix.script :
               after.scripts[key] = givenFix.script[key]
          /\ \A key \in DOMAIN before.scripts \ DOMAIN givenFix.script :
               after.scripts[key] = before.scripts[key]
          /\ "scripts" \in after.has
          /\ after.has \ {"scripts"} = before.has \ {"scripts"}
          /\ after.dependencies = before.dependencies
          /\ after.devDependencies = before.devDependencies
          /\ after.exists
          /\ after.parses

C26_Witness ==
  \E o \in DOMAIN outcomes :
    /\ givenFix.type = "add_build_script"
    /\ outcomes[o].success
    /\ outcomes[o].before = ViteManifest
    /\ outcomes[o].after.scripts = Spread(Obj1("dev", "vite"), givenFix.script)

\* C27: applyFix runs a command or writes package.json only for
\* install_package, install_dependencies and add_build_script; for
\* increase_memory it does nothing outside and returns true; for every other
\* type it does nothing and returns false.
C27_ExternalActionsByType ==
  \A o \in DOMAIN outcomes :
    /\ outcomes[o].did = "exec" <=>
         givenFix.type \in {"install_package", "install_dependencies"}
    /\ outcomes[o].did = "write" => givenFix.type = "add_build_script"
    /\ givenFix.type = "increase_memory" =>
         /\ outcomes[o].did = "none"
         /\ outcomes[o].success
         /\ outcomes[o].after = outcomes[o].before
    /\ givenFix.type \notin AppliedFixTypes =>
         /\ outcomes[o].did = "none"
         /\ ~outcomes[o].success
         /\ outcomes[o].after = outcomes[o].before

C27_Witness ==
  /\ Len(outcomes) = 2
  /\ givenFix.type = "fix_syntax"
  /\ ~outcomes[1].ext.installOk
  /\ outcomes[2].ext.installOk
  /\ ~outcomes[2].success

====
